---- MODULE Spec2Model ----
(***************************************************************************)
(* Model of pyslam's stereo camera (sensors/stereo_camera.py) and of the   *)
(* frame-to-frame RANSAC engine (pipelines/ransac.py).                     *)
(*                                                                         *)
(* Floating point values are modelled as exact extended rationals, a pair  *)
(* <<n, d>>: d > 0 is the rational n/d in lowest terms, <<1, 0>> is +inf,   *)
(* <<-1, 0>> is -inf and <<0, 0>> is NaN.  Rounding is not modelled and     *)
(* the sign of a zero is ignored (a division by zero gives the infinity of *)
(* the numerator's sign).                                                  *)
(*                                                                         *)
(* An array is a record [shape, d]: shape <<n, c>> with d a sequence of n   *)
(* rows of c values, or shape <<k>> with d a sequence of k values.  An      *)
(* attribute that was never assigned is Unset.                             *)
(***************************************************************************)
EXTENDS Integers, Sequences, FiniteSets, TLC

\* ------------------------------------------------------------- bounds
MaxN == 6
RansacIters == 2
MaxRows == 2

\* ---------------------------------------------------------- constants
ransac_thresh == 5
num_min_set_pts == 3
MinInliers == 5

\* The camera every engine of the model is constructed with.
camera == [cu |-> <<4, 1>>, cv |-> <<4, 1>>, fu |-> <<2, 1>>, fv |-> <<2, 1>>,
           b |-> <<1, 1>>, w |-> 12, h |-> 12]

\* ------------------------------------------------------------ numbers
Abs(x) == IF x < 0 THEN -x ELSE x

Sgn(x) == IF x < 0 THEN -1 ELSE IF x > 0 THEN 1 ELSE 0

RECURSIVE GCD(_, _)
GCD(a, b) == IF b = 0 THEN a ELSE GCD(b, a % b)

Norm(n, d) ==
    IF d = 0 THEN <<Sgn(n), 0>>
    ELSE LET s == Sgn(d)
             g == GCD(Abs(n), Abs(d))
         IN  <<(s * n) \div g, (s * d) \div g>>

NaN == <<0, 0>>

Int2Num(i) == <<i, 1>>

IsNaN(a) == a = NaN

IsFinite(a) == a[2] > 0

Neg(a) == <<-a[1], a[2]>>

Add(a, b) ==
    IF a[2] = 0 \/ b[2] = 0
    THEN IF IsNaN(a) \/ IsNaN(b) THEN NaN
         ELSE IF a[2] = 0 /\ b[2] = 0 THEN (IF a[1] = b[1] THEN a ELSE NaN)
         ELSE IF a[2] = 0 THEN a ELSE b
    ELSE Norm(a[1] * b[2] + b[1] * a[2], a[2] * b[2])

Sub(a, b) == Add(a, Neg(b))

Mul(a, b) == Norm(a[1] * b[1], a[2] * b[2])

Div(a, b) ==
    LET s == IF b[1] < 0 THEN -1 ELSE 1
    IN  Norm(s * a[1] * b[2], s * a[2] * b[1])

Less(a, b) ==
    IF IsNaN(a) \/ IsNaN(b) THEN FALSE
    ELSE IF a[2] = 0 /\ b[2] = 0 THEN a[1] < b[1]
    ELSE a[1] * b[2] < b[1] * a[2]

Greater(a, b) == Less(b, a)

\* ------------------------------------------------------------- arrays
\* A function on 1..n as the tuple of its values.
Tuple(f, n) == SubSeq(f, 1, n)

Unset == [shape |-> <<>>, d |-> <<>>]

Arr2(rows, c) == [shape |-> <<Len(rows), c>>, d |-> rows]

Arr1(v) == [shape |-> <<Len(v)>>, d |-> v]

Rank(a) == Len(a.shape)

\* len(a)
PyLen(a) == a.shape[1]

\* np.atleast_2d
AtLeast2d(a) ==
    IF Rank(a) = 1 THEN [shape |-> <<1, a.shape[1]>>, d |-> <<a.d>>] ELSE a

\* np.squeeze: every axis of length 1 is removed
Squeeze(a) ==
    IF Rank(a) = 2 /\ a.shape[1] = 1 /\ a.shape[2] # 1
    THEN [shape |-> <<a.shape[2]>>, d |-> a.d[1]]
    ELSE a

NaNRow == <<NaN, NaN, NaN>>

\* --------------------------------------------------------- the camera
\* is_valid_measurement with the lower limit of u included.
ValidRowClosed(cam, r) ==
    /\ ~Less(r[1], Int2Num(0))
    /\ Less(r[1], Int2Num(cam.w))
    /\ Greater(r[2], Int2Num(0))
    /\ Less(r[2], Int2Num(cam.h))
    /\ Greater(r[3], Int2Num(0))

\* The boolean of one row of is_valid_measurement's result.
ValidRow(cam, r) ==
    /\ Greater(r[1], Int2Num(0))
    /\ Less(r[1], Int2Num(cam.w))
    /\ Greater(r[2], Int2Num(0))
    /\ Less(r[2], Int2Num(cam.h))
    /\ Greater(r[3], Int2Num(0))

is_valid_measurement(cam, uvd_in) ==
    LET uvd == AtLeast2d(uvd_in)
    IN  IF uvd.shape[2] # 3
        THEN [err |-> "ValidationError", val |-> <<>>]
        ELSE [err |-> "none",
              val |-> Tuple([i \in 1..uvd.shape[1] |-> ValidRow(cam, uvd.d[i])], uvd.shape[1])]

\* Row i of pt_c before the invalid rows are overwritten.
TriangulateRow(cam, r) ==
    LET b_over_d == Div(cam.b, r[3])
        fu_over_fv == Div(cam.fu, cam.fv)
    IN  <<Mul(Sub(r[1], cam.cu), b_over_d),
          Mul(Mul(Sub(r[2], cam.cv), b_over_d), fu_over_fv),
          Mul(cam.fu, b_over_d)>>

triangulate(cam, uvd_in) ==
    LET uvd == AtLeast2d(uvd_in)
    IN  IF uvd.shape[2] # 3
        THEN [err |-> "ValidationError", val |-> Unset]
        ELSE LET n == uvd.shape[1]
                 pt_c == Tuple([i \in 1..n |-> TriangulateRow(cam, uvd.d[i])], n)
                 valid_meas == is_valid_measurement(cam, uvd).val
                 filled == Tuple([i \in 1..n |-> IF valid_meas[i] THEN pt_c[i] ELSE NaNRow], n)
             IN  [err |-> "none", val |-> Squeeze(Arr2(filled, 3))]

\* Row i of uvd before the invalid rows are overwritten.
ProjectRow(cam, p) ==
    LET one_over_z == Div(Int2Num(1), p[3])
    IN  <<Add(Mul(Mul(cam.fu, p[1]), one_over_z), cam.cu),
          Add(Mul(Mul(cam.fv, p[2]), one_over_z), cam.cv),
          Mul(Mul(cam.fu, cam.b), one_over_z)>>

project(cam, pt_in) ==
    LET pt_c == AtLeast2d(pt_in)
    IN  IF pt_c.shape[2] # 3
        THEN [err |-> "ValidationError", val |-> Unset]
        ELSE LET n == pt_c.shape[1]
                 uvd == Tuple([i \in 1..n |-> ProjectRow(cam, pt_c.d[i])], n)
                 valid_meas == is_valid_measurement(cam, Arr2(uvd, 3)).val
                 filled == Tuple([i \in 1..n |-> IF valid_meas[i] THEN uvd[i] ELSE NaNRow], n)
             IN  [err |-> "none", val |-> Squeeze(Arr2(filled, 3))]

\* ------------------------------------------- compute_transform_fast
Sum3(a, b, c) == Add(Add(a, b), c)

\* np.mean of column j of a 3-row point set
Mean(pts, j) == Div(Sum3(pts[1][j], pts[2][j], pts[3][j]), Int2Num(Len(pts)))

Centroid(pts) == <<Mean(pts, 1), Mean(pts, 2), Mean(pts, 3)>>

Centered(pts, c) ==
    Tuple([i \in 1..Len(pts) |->
        <<Sub(pts[i][1], c[1]), Sub(pts[i][2], c[2]), Sub(pts[i][3], c[3])>>], Len(pts))

\* W = (1.0/numPts) * np.dot(pts_2_c.T, pts_1_c)
CrossCov(p1c, p2c) ==
    LET numPts == Len(p1c)
        inv == Div(Int2Num(1), Int2Num(numPts))
    IN  Tuple([a \in 1..3 |-> Tuple([b \in 1..3 |->
            Mul(inv, Sum3(Mul(p2c[1][a], p1c[1][b]),
                          Mul(p2c[2][a], p1c[2][b]),
                          Mul(p2c[3][a], p1c[3][b])))], 3)], 3)

MatFinite(W) == \A a \in 1..3 : \A b \in 1..3 : IsFinite(W[a][b])

\* The rotations the fit can return in the model: the quarter turns about
\* the optical axis, the identity first, as <<cos, sin>> of the angle.
Rots == << <<1, 0>>, <<0, 1>>, <<-1, 0>>, <<0, -1>> >>

RotMatrix(r) ==
    << <<Int2Num(r[1]), Int2Num(-r[2]), Int2Num(0)>>,
       <<Int2Num(r[2]), Int2Num(r[1]), Int2Num(0)>>,
       <<Int2Num(0), Int2Num(0), Int2Num(1)>> >>

\* trace(C^T W) for the rotation C = RotMatrix(r)
Overlap(r, W) ==
    Sum3(Mul(Int2Num(r[1]), Add(W[1][1], W[2][2])),
         Mul(Int2Num(r[2]), Sub(W[2][1], W[1][2])),
         W[3][3])

\* C_21 = U S V of the singular value decomposition W = U Sigma V with
\* S = diag(1, 1, det(U) det(V)): the proper rotation that maximises
\* trace(C^T W).  The model takes the maximum over Rots, the first one on a
\* tie (a rank deficient W).
KabschRotation(W) ==
    LET ov == Tuple([k \in 1..Len(Rots) |-> Overlap(Rots[k], W)], Len(Rots))
        best == CHOOSE k \in 1..Len(Rots) :
                  /\ \A j \in 1..Len(Rots) : ~Less(ov[k], ov[j])
                  /\ \A j \in 1..(k - 1) : Less(ov[j], ov[k])
    IN  RotMatrix(Rots[best])

Dot3(u, v) == Sum3(Mul(u[1], v[1]), Mul(u[2], v[2]), Mul(u[3], v[3]))

MatVec(M, v) == <<Dot3(M[1], v), Dot3(M[2], v), Dot3(M[3], v)>>

Transpose(M) == Tuple([a \in 1..3 |-> Tuple([b \in 1..3 |-> M[b][a]], 3)], 3)

NegMat(M) == Tuple([a \in 1..3 |-> Tuple([b \in 1..3 |-> Neg(M[a][b])], 3)], 3)

VecAdd(u, v) == <<Add(u[1], v[1]), Add(u[2], v[2]), Add(u[3], v[3])>>

BottomRow == <<Int2Num(0), Int2Num(0), Int2Num(0), Int2Num(1)>>

NaNTransform == <<
    <<NaN, NaN, NaN, NaN>>, <<NaN, NaN, NaN, NaN>>, <<NaN, NaN, NaN, NaN>>, BottomRow>>

\* One call of the kernel: the 4x4 matrix written to out, or the error of
\* np.linalg.svd on a matrix that is not finite.  mode is the behaviour of
\* the linear algebra build there: "raise" (LinAlgError) or "nan" (the
\* factors are NaN).
compute_transform_fast(pts_1, pts_2, mode) ==
    LET centroid_1 == Centroid(pts_1)
        centroid_2 == Centroid(pts_2)
        pts_1_c == Centered(pts_1, centroid_1)
        pts_2_c == Centered(pts_2, centroid_2)
        W == CrossCov(pts_1_c, pts_2_c)
    IN  IF ~MatFinite(W)
        THEN IF mode = "raise" THEN [err |-> "LinAlgError", val |-> NaNTransform]
             ELSE [err |-> "none", val |-> NaNTransform]
        ELSE LET C_21 == KabschRotation(W)
                 r_21_1 == VecAdd(MatVec(NegMat(Transpose(C_21)), centroid_2), centroid_1)
                 trans == MatVec(NegMat(C_21), r_21_1)
             IN  [err |-> "none",
                  val |-> << <<C_21[1][1], C_21[1][2], C_21[1][3], trans[1]>>,
                             <<C_21[2][1], C_21[2][2], C_21[2][3], trans[2]>>,
                             <<C_21[3][1], C_21[3][2], C_21[3][3], trans[3]>>,
                             BottomRow >>]

\* ----------------------------------------- compute_ransac_cost_fast
\* The squared error of correspondence i (0-based) under T_21: the body of
\* the kernel's loop up to the comparison.
CostError(T_21, pts_1, stereo_obs_2, cam_params, i) ==
    LET p == pts_1.d[i + 1]
        o == stereo_obs_2.d[i + 1]
        x == Add(Add(Add(T_21[1][4], Mul(T_21[1][1], p[1])), Mul(T_21[1][2], p[2])), Mul(T_21[1][3], p[3]))
        y == Add(Add(Add(T_21[2][4], Mul(T_21[2][1], p[1])), Mul(T_21[2][2], p[2])), Mul(T_21[2][3], p[3]))
        z == Add(Add(Add(T_21[3][4], Mul(T_21[3][1], p[1])), Mul(T_21[3][2], p[2])), Mul(T_21[3][3], p[3]))
        one_over_z == Div(Int2Num(1), z)
        x_t == Add(Mul(Mul(cam_params.fu, x), one_over_z), cam_params.cu)
        y_t == Add(Mul(Mul(cam_params.fv, y), one_over_z), cam_params.cv)
        z_t == Mul(Mul(cam_params.fu, cam_params.b), one_over_z)
    IN  Sum3(Mul(Sub(x_t, o[1]), Sub(x_t, o[1])),
             Mul(Sub(y_t, o[2]), Sub(y_t, o[2])),
             Mul(Sub(z_t, o[3]), Sub(z_t, o[3])))

\* The comparison with an error equal to the threshold accepted.
CostInlierLeq(T_21, pts_1, stereo_obs_2, cam_params, inlier_thresh, i) ==
    LET error == CostError(T_21, pts_1, stereo_obs_2, cam_params, i)
    IN  Less(error, Int2Num(inlier_thresh)) \/ error = Int2Num(inlier_thresh)

\* out[i] = error < inlier_thresh[0]
CostInlier(T_21, pts_1, stereo_obs_2, cam_params, inlier_thresh, i) ==
    Less(CostError(T_21, pts_1, stereo_obs_2, cam_params, i), Int2Num(inlier_thresh))

\* The generalized ufunc's check of its core dimensions (m,n),(m,n): both
\* operands have two dimensions and the same shape.
CostShapesOK(pts_1, stereo_obs_2) ==
    /\ Rank(pts_1) = 2
    /\ Rank(stereo_obs_2) = 2
    /\ pts_1.shape = stereo_obs_2.shape

\* ------------------------------------------------- the engine's state
VARIABLES
    stereo_obs_1, stereo_obs_2, pts_1, pts_2, num_pts,  \* FrameToFrameRANSAC's attributes
    set_in, set_err, set_tri,       \* the last set_obs call: argument shapes, error, triangulations run
    pc, phases, err,                \* perform_ransac: phase, phases entered so far, error raised
    rand_ids, pts_1_sample_stacked, pts_2_sample_stacked,
    T_21_stacked, inlier_masks_stacked, result,
    fit_done, score_i,              \* the parallel kernels: fits finished (in order), loop indices
    linalg_mode,
    cam_op, cam_in, cam_out         \* a direct call of the camera

engine_vars == <<stereo_obs_1, stereo_obs_2, pts_1, pts_2, num_pts>>

set_vars == <<set_in, set_err, set_tri>>

call_vars == <<pc, phases, err, rand_ids, pts_1_sample_stacked, pts_2_sample_stacked,
               T_21_stacked, inlier_masks_stacked, result, fit_done, score_i>>

cam_vars == <<cam_op, cam_in, cam_out>>

vars == <<engine_vars, set_vars, call_vars, linalg_mode, cam_vars>>

NoAttr == -1

NoResult == [T_21_best |-> <<>>, stereo_obs_1_inliers |-> Unset,
             stereo_obs_2_inliers |-> Unset, inlier_indices_best |-> <<>>]

LinalgModes == {"raise", "nan"}

\* ------------------------------------------------- observation batches
\* Row i (0-based) of the first frame of the scene: a valid measurement.
BaseObs1(i) == <<1 + 2 * (i % 3), 1 + 2 * ((i \div 3) % 3), 1 + (i % 2)>>

\* The same point seen after the camera moved by one baseline: u grows by d.
BaseObs2(i) == <<BaseObs1(i)[1] + BaseObs1(i)[3], BaseObs1(i)[2], BaseObs1(i)[3]>>

Kinds == {"none", "e4", "e5", "e9", "inv1", "inv2"}

Obs1Row(i, s, kind) ==
    LET r == BaseObs1(i)
    IN  IF i = s /\ kind = "inv1" THEN <<r[1], r[2], 0>> ELSE r

Obs2Row(i, s, kind) ==
    LET r == BaseObs2(i)
    IN  IF i # s THEN r
        ELSE CASE kind = "e4" -> <<r[1] + 2, r[2], r[3]>>
               [] kind = "e5" -> <<r[1] + 2, r[2] + 1, r[3]>>
               [] kind = "e9" -> <<r[1] + 3, r[2], r[3]>>
               [] kind = "inv2" -> <<r[1], r[2], 0>>
               [] OTHER -> r

NumRow(r, c) == Tuple([j \in 1..c |-> Int2Num(r[j])], c)

ObsBatch1(n, c, s, kind) == Arr2(Tuple([i \in 1..n |-> NumRow(Obs1Row(i - 1, s, kind), c)], n), c)

ObsBatch2(n, c, s, kind) == Arr2(Tuple([i \in 1..n |-> NumRow(Obs2Row(i - 1, s, kind), c)], n), c)

\* What a caller passes to set_obs: the scene's pairs of every length up to
\* MaxN, the pairs of length MaxN with one special correspondence (the
\* first one), a pair of different lengths, and pairs with a batch of two
\* columns.
SpecialFrames ==
    {[o1 |-> ObsBatch1(MaxN, 3, 0, k), o2 |-> ObsBatch2(MaxN, 3, 0, k)] : k \in Kinds}

GoodFrames ==
    {[o1 |-> ObsBatch1(n, 3, 0, "none"), o2 |-> ObsBatch2(n, 3, 0, "none")] : n \in 0..MaxN}
    \cup SpecialFrames

MismatchedFrames ==
    {[o1 |-> ObsBatch1(MaxN, 3, 0, "none"), o2 |-> ObsBatch2(MaxN - 1, 3, 0, "none")]}

MalformedFrames ==
    {[o1 |-> ObsBatch1(MaxN, 2, 0, "none"), o2 |-> ObsBatch2(MaxN, 3, 0, "none")],
     [o1 |-> ObsBatch1(MaxN, 3, 0, "none"), o2 |-> ObsBatch2(MaxN, 2, 0, "none")]}

Frames == GoodFrames \cup MismatchedFrames \cup MalformedFrames

\* The rows np.random.randint can fill rand_ids with, as far as the model
\* draws them: three consecutive indices (mod n) from the first, the second
\* or the last index, or three times the first index.
MinimalSets(n) ==
    {<<a % n, (a + 1) % n, (a + 2) % n>> : a \in {0, 1, n - 1}} \cup {<<0, 0, 0>>}

\* The draws of the specification of the parallel kernels.
ParMinimalSets(n) == {<<1 % n, 2 % n, 3 % n>>, <<0, 0, 0>>}

\* --------------------------------------------------------------- Init
InitEngine ==
    /\ stereo_obs_1 = Unset
    /\ stereo_obs_2 = Unset
    /\ pts_1 = Unset
    /\ pts_2 = Unset
    /\ num_pts = NoAttr
    /\ set_in = <<>>
    /\ set_err = "none"
    /\ set_tri = 0

InitCall ==
    /\ pc = "Idle"
    /\ phases = <<>>
    /\ err = "none"
    /\ rand_ids = <<>>
    /\ pts_1_sample_stacked = <<>>
    /\ pts_2_sample_stacked = <<>>
    /\ T_21_stacked = <<>>
    /\ inlier_masks_stacked = <<>>
    /\ result = NoResult
    /\ fit_done = <<>>
    /\ score_i = <<>>

InitCam ==
    /\ cam_op = "none"
    /\ cam_in = Unset
    /\ cam_out = [err |-> "none", val |-> Unset]

Init ==
    /\ InitEngine
    /\ InitCall
    /\ InitCam
    /\ linalg_mode \in LinalgModes

\* ------------------------------------------------------------ set_obs
\* The attributes after set_obs(o1, o2), the error it raised and the
\* number of triangulations it completed.  An attribute assigned before the
\* error keeps its new value; one not reached keeps its old value.
set_obs(o1, o2) ==
    LET obs_1 == AtLeast2d(o1)
        obs_2 == AtLeast2d(o2)
        t1 == triangulate(camera, obs_1)
        t2 == triangulate(camera, obs_2)
    IN  IF t1.err # "none"
        THEN [stereo_obs_1 |-> obs_1, stereo_obs_2 |-> obs_2, pts_1 |-> pts_1,
              pts_2 |-> pts_2, num_pts |-> num_pts, err |-> t1.err, tri |-> 0]
        ELSE IF t2.err # "none"
        THEN [stereo_obs_1 |-> obs_1, stereo_obs_2 |-> obs_2, pts_1 |-> t1.val,
              pts_2 |-> pts_2, num_pts |-> num_pts, err |-> t2.err, tri |-> 1]
        ELSE [stereo_obs_1 |-> obs_1, stereo_obs_2 |-> obs_2, pts_1 |-> t1.val,
              pts_2 |-> t2.val, num_pts |-> PyLen(t1.val), err |-> "none", tri |-> 2]

SetObs(o1, o2) ==
    /\ pc = "Idle"
    /\ \E r \in {set_obs(o1, o2)} :
        /\ stereo_obs_1' = r.stereo_obs_1
        /\ stereo_obs_2' = r.stereo_obs_2
        /\ pts_1' = r.pts_1
        /\ pts_2' = r.pts_2
        /\ num_pts' = r.num_pts
        /\ set_in' = <<o1.shape, o2.shape>>
        /\ set_err' = r.err
        /\ set_tri' = r.tri
    /\ UNCHANGED <<call_vars, linalg_mode, cam_vars>>

\* ----------------------------------------------------- perform_ransac
Fail(e) ==
    /\ pc' = "Failed"
    /\ err' = e
    /\ phases' = Append(phases, "Failed")

Enter(p) ==
    /\ pc' = p
    /\ phases' = Append(phases, p)
    /\ err' = err

Start ==
    /\ pc = "Idle"
    /\ pc' = "Sampling"
    /\ phases' = <<"Sampling">>
    /\ UNCHANGED <<err, rand_ids, pts_1_sample_stacked, pts_2_sample_stacked,
                   T_21_stacked, inlier_masks_stacked, result, fit_done, score_i>>
    /\ UNCHANGED <<engine_vars, set_vars, linalg_mode, cam_vars>>

\* pts[ids] assigned to a 3x3 slice of the stacked samples: three rows of a
\* two-dimensional pts, or the three picked values of a one-dimensional pts
\* broadcast to every row.
Gather(pts, ids) ==
    IF Rank(pts) = 0 THEN [err |-> "AttributeError", val |-> <<>>]
    ELSE IF \E j \in 1..Len(ids) : ids[j] >= pts.shape[1]
    THEN [err |-> "IndexError", val |-> <<>>]
    ELSE IF Rank(pts) = 2
    THEN [err |-> "none", val |-> Tuple([j \in 1..Len(ids) |-> pts.d[ids[j] + 1]], Len(ids))]
    ELSE LET v == Tuple([j \in 1..Len(ids) |-> pts.d[ids[j] + 1]], Len(ids))
         IN  [err |-> "none", val |-> Tuple([j \in 1..num_min_set_pts |-> v], num_min_set_pts)]

\* Lines 104 to 115 once np.random.randint returned ids: the stacked samples,
\* or the error of the first iteration whose indexing fails.
Sampling(ids) ==
    LET g1 == Tuple([k \in 1..RansacIters |-> Gather(pts_1, ids[k])], RansacIters)
        g2 == Tuple([k \in 1..RansacIters |-> Gather(pts_2, ids[k])], RansacIters)
        bad == {k \in 1..RansacIters : g1[k].err # "none" \/ g2[k].err # "none"}
    IN  IF bad # {}
        THEN LET k == CHOOSE x \in bad : \A y \in bad : x <= y
             IN  [err |-> IF g1[k].err # "none" THEN g1[k].err ELSE g2[k].err,
                  s1 |-> <<>>, s2 |-> <<>>]
        ELSE [err |-> "none",
              s1 |-> Tuple([k \in 1..RansacIters |-> g1[k].val], RansacIters),
              s2 |-> Tuple([k \in 1..RansacIters |-> g2[k].val], RansacIters)]

\* The output array of a generalized ufunc before its kernels have run.
Allocated == Tuple([k \in 1..RansacIters |-> <<>>], RansacIters)

SamplingStep(draws, T_out) ==
    /\ pc = "Sampling"
    /\ IF num_pts = NoAttr
       THEN /\ Fail("AttributeError")
            /\ UNCHANGED <<rand_ids, pts_1_sample_stacked, pts_2_sample_stacked, T_21_stacked>>
       ELSE IF num_pts <= 0
       THEN /\ Fail("RandintError")
            /\ UNCHANGED <<rand_ids, pts_1_sample_stacked, pts_2_sample_stacked, T_21_stacked>>
       ELSE \E ids \in [1..RansacIters -> draws] :
            \E r \in {Sampling(ids)} :
                /\ rand_ids' = ids
                /\ IF r.err # "none"
                   THEN /\ Fail(r.err)
                        /\ UNCHANGED <<pts_1_sample_stacked, pts_2_sample_stacked, T_21_stacked>>
                   ELSE /\ pts_1_sample_stacked' = r.s1
                        /\ pts_2_sample_stacked' = r.s2
                        /\ T_21_stacked' = T_out
                        /\ Enter("Fitting")
    /\ UNCHANGED <<inlier_masks_stacked, result, fit_done, score_i>>
    /\ UNCHANGED <<engine_vars, set_vars, linalg_mode, cam_vars>>

DoSampling == SamplingStep(IF num_pts > 0 THEN MinimalSets(num_pts) ELSE {}, <<>>)

\* The kernel call of candidate k (1-based) of compute_transform_fast.
FitCandidate(k) ==
    compute_transform_fast(pts_1_sample_stacked[k], pts_2_sample_stacked[k], linalg_mode)

\* compute_transform_fast over the whole stack.
Fitting ==
    LET fits == Tuple([k \in 1..RansacIters |-> FitCandidate(k)], RansacIters)
    IN  IF \E k \in 1..RansacIters : fits[k].err # "none"
        THEN [err |-> "LinAlgError", val |-> <<>>]
        ELSE [err |-> "none", val |-> Tuple([k \in 1..RansacIters |-> fits[k].val], RansacIters)]

DoFitting ==
    /\ pc = "Fitting"
    /\ \E r \in {Fitting} :
        IF r.err # "none"
        THEN /\ Fail(r.err)
             /\ UNCHANGED T_21_stacked
        ELSE /\ T_21_stacked' = r.val
             /\ Enter("Scoring")
    /\ UNCHANGED <<rand_ids, pts_1_sample_stacked, pts_2_sample_stacked,
                   inlier_masks_stacked, result, fit_done, score_i>>
    /\ UNCHANGED <<engine_vars, set_vars, linalg_mode, cam_vars>>

\* out[i] of the kernel call that scores the transform T_21, i 0-based.
ScoreEntry(T_21, i) ==
    CostInlier(T_21, pts_1, stereo_obs_2, camera, ransac_thresh, i)

\* compute_ransac_cost_fast over the stack T of transforms.
Scoring(T) ==
    IF ~CostShapesOK(pts_1, stereo_obs_2)
    THEN [err |-> "GufuncShapeError", val |-> <<>>]
    ELSE [err |-> "none",
          val |-> Tuple([k \in 1..RansacIters |->
                     Tuple([i \in 1..pts_1.shape[1] |-> ScoreEntry(T[k], i - 1)],
                           pts_1.shape[1])], RansacIters)]

DoScoring ==
    /\ pc = "Scoring"
    /\ \E r \in {Scoring(T_21_stacked)} :
        IF r.err # "none"
        THEN /\ Fail(r.err)
             /\ UNCHANGED inlier_masks_stacked
        ELSE /\ inlier_masks_stacked' = r.val
             /\ Enter("Consensus")
    /\ UNCHANGED <<rand_ids, pts_1_sample_stacked, pts_2_sample_stacked,
                   T_21_stacked, result, fit_done, score_i>>
    /\ UNCHANGED <<engine_vars, set_vars, linalg_mode, cam_vars>>

\* np.sum of one row of the masks
RECURSIVE SumMask(_, _)
SumMask(mask, n) ==
    IF n = 0 THEN 0 ELSE SumMask(mask, n - 1) + (IF mask[n] THEN 1 ELSE 0)

\* An argmax that returns the last maximum.
RECURSIVE ArgMaxLast(_, _)
ArgMaxLast(nums, n) ==
    IF n = 1 THEN 0
    ELSE LET best == ArgMaxLast(nums, n - 1)
         IN  IF nums[n] >= nums[best + 1] THEN n - 1 ELSE best

\* np.argmax: the 0-based index of the first maximum among the first n
RECURSIVE ArgMax(_, _)
ArgMax(nums, n) ==
    IF n = 1 THEN 0
    ELSE LET best == ArgMax(nums, n - 1)
         IN  IF nums[n] > nums[best + 1] THEN n - 1 ELSE best

\* np.where(mask)[0]: the 0-based positions of the true entries, ascending
RECURSIVE Where(_, _)
Where(mask, n) ==
    IF n = 0 THEN <<>>
    ELSE IF mask[n] THEN Append(Where(mask, n - 1), n - 1) ELSE Where(mask, n - 1)

\* An indexing that takes the first rows of a, as many as there are ids.
TakeByPosition(a, ids) ==
    IF Len(ids) > a.shape[1]
    THEN [err |-> "IndexError", val |-> Unset]
    ELSE [err |-> "none",
          val |-> Arr2(Tuple([j \in 1..Len(ids) |-> a.d[j]], Len(ids)), a.shape[2])]

\* a[ids] for a two-dimensional a and a list of 0-based row indices
Take(a, ids) ==
    IF \E j \in 1..Len(ids) : ids[j] >= a.shape[1]
    THEN [err |-> "IndexError", val |-> Unset]
    ELSE [err |-> "none",
          val |-> Arr2(Tuple([j \in 1..Len(ids) |-> a.d[ids[j] + 1]], Len(ids)), a.shape[2])]

\* SE3.is_valid_matrix: the last row is 0 0 0 1 and the rotation block is
\* orthonormal with determinant 1, which no matrix with a NaN entry is.
SE3Valid(T) ==
    /\ T[4] = BottomRow
    /\ \A a \in 1..3 : \A b \in 1..4 : IsFinite(T[a][b])

\* Lines 136 to 155 for the transforms T and the masks M: the error raised,
\* or the tuple returned.
Consensus(T, M) ==
    LET inlier_nums == Tuple([k \in 1..RansacIters |-> SumMask(M[k], Len(M[k]))], RansacIters)
        most_inliers_idx == ArgMax(inlier_nums, RansacIters)
        T_21_best == T[most_inliers_idx + 1]
        max_inliers == inlier_nums[most_inliers_idx + 1]
        best_mask == M[most_inliers_idx + 1]
        inlier_indices_best == Where(best_mask, Len(best_mask))
        o1 == Take(stereo_obs_1, inlier_indices_best)
        o2 == Take(stereo_obs_2, inlier_indices_best)
    IN  IF ~SE3Valid(T_21_best) THEN [err |-> "InvalidTransform", val |-> NoResult]
        ELSE IF max_inliers < MinInliers THEN [err |-> "InsufficientConsensus", val |-> NoResult]
        ELSE IF o1.err # "none" THEN [err |-> o1.err, val |-> NoResult]
        ELSE IF o2.err # "none" THEN [err |-> o2.err, val |-> NoResult]
        ELSE [err |-> "none",
              val |-> [T_21_best |-> T_21_best,
                       stereo_obs_1_inliers |-> o1.val,
                       stereo_obs_2_inliers |-> o2.val,
                       inlier_indices_best |-> inlier_indices_best]]

DoConsensus ==
    /\ pc = "Consensus"
    /\ \E r \in {Consensus(T_21_stacked, inlier_masks_stacked)} :
        IF r.err # "none"
        THEN /\ Fail(r.err)
             /\ UNCHANGED result
        ELSE /\ result' = r.val
             /\ Enter("Done")
    /\ UNCHANGED <<rand_ids, pts_1_sample_stacked, pts_2_sample_stacked,
                   T_21_stacked, inlier_masks_stacked, fit_done, score_i>>
    /\ UNCHANGED <<engine_vars, set_vars, linalg_mode, cam_vars>>

\* The call has returned or raised: its locals are gone and the engine can
\* be called again.
Return ==
    /\ pc \in {"Done", "Failed"}
    /\ pc' = "Idle"
    /\ phases' = <<>>
    /\ err' = "none"
    /\ rand_ids' = <<>>
    /\ pts_1_sample_stacked' = <<>>
    /\ pts_2_sample_stacked' = <<>>
    /\ T_21_stacked' = <<>>
    /\ inlier_masks_stacked' = <<>>
    /\ result' = NoResult
    /\ fit_done' = <<>>
    /\ score_i' = <<>>
    /\ UNCHANGED <<engine_vars, set_vars, linalg_mode, cam_vars>>

Next ==
    \/ \E f \in Frames : SetObs(f.o1, f.o2)
    \/ Start
    \/ DoSampling
    \/ DoFitting
    \/ DoScoring
    \/ DoConsensus
    \/ Return

Spec == Init /\ [][Next]_vars

\* ------------------------------------------- the kernels in parallel
\* Every kernel call handed the first slices.
KernelSliceShared(k) == 1

\* The loop index of a generalized ufunc call selects the slices of the
\* stacked operands its kernel reads and the slice of the output it writes.
KernelSlice(k) == k

\* The batches of the specification of the parallel kernels: as many pairs
\* as a consensus needs, one batch of each kind.
ParFrames ==
    {[o1 |-> ObsBatch1(MinInliers, 3, 0, k), o2 |-> ObsBatch2(MinInliers, 3, 0, k)] : k \in Kinds}

ParSampling == SamplingStep(IF num_pts > 0 THEN ParMinimalSets(num_pts) ELSE {}, Allocated)

\* One kernel call of compute_transform_fast, in any order.
ParFit(k) ==
    /\ pc = "Fitting"
    /\ \A j \in 1..Len(fit_done) : fit_done[j] # k
    /\ \E r \in {FitCandidate(KernelSlice(k))} :
        IF r.err # "none"
        THEN /\ Fail(r.err)
             /\ UNCHANGED <<T_21_stacked, fit_done>>
        ELSE /\ T_21_stacked' = [T_21_stacked EXCEPT ![KernelSlice(k)] = r.val]
             /\ fit_done' = Append(fit_done, k)
             /\ UNCHANGED <<pc, phases, err>>
    /\ UNCHANGED <<rand_ids, pts_1_sample_stacked, pts_2_sample_stacked,
                   inlier_masks_stacked, result, score_i>>
    /\ UNCHANGED <<engine_vars, set_vars, linalg_mode, cam_vars>>

\* compute_transform_fast has returned; compute_ransac_cost_fast is called
\* and checks its operands before any kernel runs.
ParFitReturn ==
    /\ pc = "Fitting"
    /\ Len(fit_done) = RansacIters
    /\ IF ~CostShapesOK(pts_1, stereo_obs_2)
       THEN /\ Fail("GufuncShapeError")
            /\ UNCHANGED <<inlier_masks_stacked, score_i>>
       ELSE /\ inlier_masks_stacked' = Allocated
            /\ score_i' = Tuple([k \in 1..RansacIters |-> 0], RansacIters)
            /\ Enter("Scoring")
    /\ UNCHANGED <<rand_ids, pts_1_sample_stacked, pts_2_sample_stacked,
                   T_21_stacked, result, fit_done>>
    /\ UNCHANGED <<engine_vars, set_vars, linalg_mode, cam_vars>>

\* One iteration of the loop of the kernel call of candidate k.
ParScore(k) ==
    /\ pc = "Scoring"
    /\ score_i[k] < pts_1.shape[1]
    /\ \E v \in {ScoreEntry(T_21_stacked[KernelSlice(k)], score_i[k])} :
        inlier_masks_stacked' =
            [inlier_masks_stacked EXCEPT ![KernelSlice(k)] = Append(@, v)]
    /\ score_i' = [score_i EXCEPT ![k] = @ + 1]
    /\ UNCHANGED <<pc, phases, err, rand_ids, pts_1_sample_stacked, pts_2_sample_stacked,
                   T_21_stacked, result, fit_done>>
    /\ UNCHANGED <<engine_vars, set_vars, linalg_mode, cam_vars>>

ParScoreReturn ==
    /\ pc = "Scoring"
    /\ \A k \in 1..RansacIters : score_i[k] = pts_1.shape[1]
    /\ Enter("Consensus")
    /\ UNCHANGED <<rand_ids, pts_1_sample_stacked, pts_2_sample_stacked,
                   T_21_stacked, inlier_masks_stacked, result, fit_done, score_i>>
    /\ UNCHANGED <<engine_vars, set_vars, linalg_mode, cam_vars>>

NextPar ==
    \/ \E f \in ParFrames : SetObs(f.o1, f.o2)
    \/ Start
    \/ ParSampling
    \/ \E k \in 1..RansacIters : ParFit(k)
    \/ ParFitReturn
    \/ \E k \in 1..RansacIters : ParScore(k)
    \/ ParScoreReturn
    \/ DoConsensus
    \/ Return

SpecPar == Init /\ [][NextPar]_vars

\* ------------------------------------------- the camera called directly
\* Measurements and points a caller may pass: in range, on and beyond each
\* limit of is_valid_measurement, with a zero or negative disparity or
\* depth, and not a number.
CamObsRows ==
    {<<1, 1, 1>>, <<5, 3, 2>>, <<0, 1, 1>>, <<12, 1, 1>>, <<1, 0, 2>>, <<1, 12, 2>>,
     <<1, 1, 0>>, <<4, 4, 0>>, <<1, 1, -1>>, <<-1, 13, 1>>}

CamPtRows ==
    {<<-3, -3, 2>>, <<0, 0, 1>>, <<1, 1, 0>>, <<0, 0, 0>>, <<1, 1, -1>>,
     <<10, 0, 1>>, <<-2, 0, 1>>, <<4, 0, 1>>, <<0, -2, 1>>, <<0, 4, 1>>}

NumRows(rows) == {NumRow(r, 3) : r \in rows} \cup {<<NaN, Int2Num(1), Int2Num(1)>>}

RECURSIVE Batches(_, _)
Batches(rows, n) ==
    IF n = 0 THEN {<<>>}
    ELSE Batches(rows, n - 1) \cup
         {Append(b, r) : b \in {x \in Batches(rows, n - 1) : Len(x) = n - 1}, r \in rows}

CamObsBatches == {Arr2(b, 3) : b \in Batches(NumRows(CamObsRows), MaxRows)}

CamPtBatches == {Arr2(b, 3) : b \in Batches(NumRows(CamPtRows), MaxRows)}

CamTriangulate(uvd) ==
    /\ cam_op = "none"
    /\ cam_op' = "triangulate"
    /\ cam_in' = uvd
    /\ cam_out' = triangulate(camera, uvd)
    /\ UNCHANGED <<engine_vars, set_vars, call_vars, linalg_mode>>

CamProject(pt_c) ==
    /\ cam_op = "none"
    /\ cam_op' = "project"
    /\ cam_in' = pt_c
    /\ cam_out' = project(camera, pt_c)
    /\ UNCHANGED <<engine_vars, set_vars, call_vars, linalg_mode>>

\* The caller has taken the result.
CamReturn ==
    /\ cam_op # "none"
    /\ cam_op' = "none"
    /\ cam_in' = Unset
    /\ cam_out' = [err |-> "none", val |-> Unset]
    /\ UNCHANGED <<engine_vars, set_vars, call_vars, linalg_mode>>

NextCam ==
    \/ \E uvd \in CamObsBatches : CamTriangulate(uvd)
    \/ \E pt_c \in CamPtBatches : CamProject(pt_c)
    \/ CamReturn

SpecCam == Init /\ [][NextCam]_vars

\* ============================================================ claims
\* The last set_obs call succeeded on two batches of the same shape (n, 3)
\* with n >= 1 whose measurements are all valid.
StoredValidBatch ==
    /\ set_in # <<>>
    /\ set_err = "none"
    /\ set_in[1] = set_in[2]
    /\ set_in[1][1] >= 1
    /\ \A i \in 1..set_in[1][1] :
        ValidRow(camera, stereo_obs_1.d[i]) /\ ValidRow(camera, stereo_obs_2.d[i])

\* The last set_obs call succeeded on two batches of the same shape (n, 3).
StoredBatch ==
    /\ set_in # <<>>
    /\ set_err = "none"
    /\ set_in[1] = set_in[2]

\* The number of true entries of the mask of candidate k (1-based).
InlierCount(k) ==
    Cardinality({i \in 1..Len(inlier_masks_stacked[k]) : inlier_masks_stacked[k][i]})

\* Candidate w has the most inliers and no earlier candidate has as many.
IsFirstMax(w) ==
    /\ \A k \in 1..RansacIters : InlierCount(k) <= InlierCount(w)
    /\ \A k \in 1..(w - 1) : InlierCount(k) < InlierCount(w)

\* Claim C1, as stated, for a stored batch of at least one valid pair:
\* perform_ransac never returns fewer than 5 inlier indices, and it ends with
\* the InsufficientConsensus error whenever the batch holds fewer than 5
\* correspondences or the winning candidate has fewer than 5 inliers.
C1_InsufficientConsensusBelowFive ==
    StoredValidBatch =>
        /\ pc = "Done" => Len(result.inlier_indices_best) >= 5
        /\ (pc \in {"Done", "Failed"} /\ set_in[1][1] < 5) =>
                (pc = "Failed" /\ err = "InsufficientConsensus")
        /\ (pc = "Failed" /\ inlier_masks_stacked # <<>>
                /\ \A k \in 1..RansacIters : InlierCount(k) < 5) =>
                err = "InsufficientConsensus"

\* Claim C2: when perform_ransac returns, the returned transform is the
\* fitted transform of the candidate with the largest inlier count, the one
\* of the smallest iteration index among those with that count.
C2_FirstMaxSelected ==
    pc = "Done" =>
        \E w \in 1..RansacIters :
            IsFirstMax(w) /\ result.T_21_best = T_21_stacked[w]

\* perform_ransac returned after two candidates with different transforms
\* tied for the largest inlier count.
C2_Witness ==
    /\ pc = "Done"
    /\ IsFirstMax(1)
    /\ \E k \in 2..RansacIters :
        InlierCount(k) = InlierCount(1) /\ T_21_stacked[k] # T_21_stacked[1]

\* Claim C3: when perform_ransac returns, the index list is the ascending
\* list of the positions at which the winning mask is true, and the two
\* returned observation arrays are the rows of stereo_obs_1 and stereo_obs_2
\* at those indices in that order.
C3_InlierSubset ==
    pc = "Done" =>
        LET idx == result.inlier_indices_best
            o1 == result.stereo_obs_1_inliers
            o2 == result.stereo_obs_2_inliers
        IN  \E w \in 1..RansacIters :
            /\ IsFirstMax(w)
            /\ \A j \in 1..(Len(idx) - 1) : idx[j] < idx[j + 1]
            /\ {idx[j] : j \in 1..Len(idx)} =
                  {i - 1 : i \in {x \in 1..Len(inlier_masks_stacked[w]) :
                                      inlier_masks_stacked[w][x]}}
            /\ \A j \in 1..Len(idx) : idx[j] >= 0 /\ idx[j] < Len(inlier_masks_stacked[w])
            /\ o1.shape[1] = Len(idx) /\ Len(o1.d) = Len(idx)
            /\ o2.shape[1] = Len(idx) /\ Len(o2.d) = Len(idx)
            /\ \A j \in 1..Len(idx) :
                /\ o1.d[j] = stereo_obs_1.d[idx[j] + 1]
                /\ o2.d[j] = stereo_obs_2.d[idx[j] + 1]

\* perform_ransac returned an index list that skips a correspondence.
C3_Witness ==
    /\ pc = "Done"
    /\ StoredBatch
    /\ result.inlier_indices_best[1] # 0

\* Claim C4: entry i of the mask of every candidate is true exactly when the
\* squared error of correspondence i under the candidate's transform is a
\* number strictly below 5, the threshold itself.
C4_StrictThreshold ==
    (pc \in {"Consensus", "Done", "Failed"} /\ inlier_masks_stacked # <<>>) =>
        \A k \in 1..RansacIters : \A i \in 1..Len(inlier_masks_stacked[k]) :
            LET e == CostError(T_21_stacked[k], pts_1, stereo_obs_2, camera, i - 1)
            IN  inlier_masks_stacked[k][i] <=> (e[2] > 0 /\ e[1] < 5 * e[2])

\* A correspondence whose squared error equals the threshold was scored and
\* is no inlier, and one with a smaller error is.
C4_Witness ==
    /\ pc = "Consensus"
    /\ \E k \in 1..RansacIters : \E i, j \in 1..Len(inlier_masks_stacked[k]) :
        /\ CostError(T_21_stacked[k], pts_1, stereo_obs_2, camera, i - 1) = <<5, 1>>
        /\ ~inlier_masks_stacked[k][i]
        /\ inlier_masks_stacked[k][j]

\* Claim C5, as stated, for two batches of three columns: set_obs raises the
\* validation error, before any triangulation, when their lengths differ.
C5_MismatchRejected ==
    (set_in # <<>> /\ set_in[1][2] = 3 /\ set_in[2][2] = 3 /\ set_in[1][1] # set_in[2][1]) =>
        (set_err = "ValidationError" /\ set_tri = 0)

\* Claim C6, as stated, for the calls that succeed on batches of the same
\* length: the stored observations and points all have the length N of the
\* batches passed, and so has the correspondence count.
C6_BatchConsistent ==
    StoredBatch =>
        LET n == set_in[1][1]
        IN  /\ stereo_obs_1.shape = <<n, 3>>
            /\ stereo_obs_2.shape = <<n, 3>>
            /\ pts_1.shape = <<n, 3>>
            /\ pts_2.shape = <<n, 3>>
            /\ num_pts = n

\* A measurement within the limits: 0 < u < w, 0 < v < h, 0 < d.
InRange(r) ==
    LET positive(x) == (x[2] > 0 /\ x[1] > 0) \/ x = <<1, 0>>
        below(x, lim) == (x[2] > 0 /\ x[1] < lim * x[2]) \/ x = <<-1, 0>>
    IN  /\ positive(r[1]) /\ below(r[1], camera.w)
        /\ positive(r[2]) /\ below(r[2], camera.h)
        /\ positive(r[3])

\* The rows of a result, a single row when it was squeezed.
RowsOf(a) == IF Rank(a) = 1 THEN <<a.d>> ELSE a.d

\* Claim C7: project and triangulate of an N x 3 batch raise nothing; row i
\* of the result is all NaN exactly when the measurement of row i (the one
\* passed to triangulate, the one computed by project) is out of range, and
\* any other row is what the call returns for that row alone.
C7_NaNIffInvalid ==
    cam_op # "none" =>
        /\ cam_out.err = "none"
        /\ LET in == cam_in.d
               out == RowsOf(cam_out.val)
               meas(i) == IF cam_op = "triangulate" THEN in[i] ELSE ProjectRow(camera, in[i])
               alone(i) == IF cam_op = "triangulate"
                           THEN triangulate(camera, Arr2(<<in[i]>>, 3)).val.d
                           ELSE project(camera, Arr2(<<in[i]>>, 3)).val.d
           IN  /\ Len(out) = Len(in)
               /\ \A i \in 1..Len(in) :
                    /\ out[i] = NaNRow <=> ~InRange(meas(i))
                    /\ InRange(meas(i)) => out[i] = alone(i)

\* A batch whose first row is out of range and whose second is not came
\* back with the first row NaN and the second computed.
C7_Witness ==
    /\ cam_op \in {"triangulate", "project"}
    /\ Len(cam_in.d) >= 2
    /\ LET meas(i) == IF cam_op = "triangulate" THEN cam_in.d[i]
                      ELSE ProjectRow(camera, cam_in.d[i])
       IN  /\ ~InRange(meas(1))
           /\ InRange(meas(2))
           /\ cam_out.val.d[1] = NaNRow
           /\ cam_out.val.d[2] # NaNRow

\* What perform_ransac ends with when the kernels run one after the other
\* in index order, from the stored batch and the samples drawn.
InOrderOutcome ==
    LET f == Fitting
    IN  IF f.err # "none" THEN <<f.err, NoResult>>
        ELSE LET m == Scoring(f.val)
             IN  IF m.err # "none" THEN <<m.err, NoResult>>
                 ELSE LET c == Consensus(f.val, m.val)
                      IN  <<c.err, c.val>>

\* Claim C8: whatever the order in which the fitting kernels and the steps
\* of the scoring kernels ran, the transforms, the masks and the outcome of
\* perform_ransac are those of the kernels run in index order.
C8_OrderIndependent ==
    (Len(phases) >= 2 /\ phases[2] = "Fitting") =>
        /\ pc \in {"Consensus", "Done"} =>
            /\ T_21_stacked = Fitting.val
            /\ inlier_masks_stacked = Scoring(Fitting.val).val
        /\ pc \in {"Done", "Failed"} => <<err, result>> = InOrderOutcome

\* perform_ransac returned after the fitting kernel of a later candidate
\* finished first.
C8_Witness ==
    /\ pc = "Done"
    /\ fit_done # <<>>
    /\ fit_done[1] # 1

\* Claim C9, as stated, for a call on a stored batch of at least one valid
\* pair: the call goes through Sampling, Fitting, Scoring and Consensus once
\* each in that order and ends in Done, or in Failed with the
\* InsufficientConsensus error raised in Consensus.
C9_PhasesThenDoneOrFailed ==
    (StoredValidBatch /\ pc \in {"Done", "Failed"}) =>
        \/ phases = <<"Sampling", "Fitting", "Scoring", "Consensus", "Done">>
        \/ /\ phases = <<"Sampling", "Fitting", "Scoring", "Consensus", "Failed">>
           /\ err = "InsufficientConsensus"

\* Claim C10, as stated, for a call on a stored batch: no returned inlier
\* index is that of a correspondence whose observation in either set fails
\* is_valid_measurement.
C10_NoInvalidInlier ==
    (StoredBatch /\ pc = "Done") =>
        \A j \in 1..Len(result.inlier_indices_best) :
            LET i == result.inlier_indices_best[j] + 1
            IN  /\ ValidRow(camera, stereo_obs_1.d[i])
                /\ ValidRow(camera, stereo_obs_2.d[i])

====
